---- MODULE Spec2Model ----
(***************************************************************************)
(* The Pithon evaluator (src/src/pithon/evaluator/evaluator.py) as an      *)
(* abstract machine.  evaluate_stmt is recursive; the machine makes the    *)
(* recursion explicit:                                                     *)
(*   ctrl     what is being done now: evaluating a node in a frame         *)
(*            ("eval"), returning a value to the pending caller ("val"),   *)
(*            dispatching an evaluated call ("apply") or unwinding with a  *)
(*            Python exception ("raise");                                  *)
(*   kont     the pending evaluate_stmt activations, innermost first, each *)
(*            at the place of its recursive call;                          *)
(*   frames   the EnvFrame heap (a frame is its index; parent 0 is None);  *)
(*   objects  the VObject heap (an object is its index);                   *)
(*   program  the statement list given to evaluate();                      *)
(*   pc       "run", then "done" (evaluate returned) or "raised" (an       *)
(*            exception left evaluate).                                    *)
(* A payload field is named after its type (num, bool, str, elems) where   *)
(* the source writes .value, so that records of different variants can be  *)
(* compared.  A String is the sequence of its characters.  Primitives, the *)
(* binary operators that call them and `in` are not modelled.              *)
(***************************************************************************)
EXTENDS Integers, Sequences, FiniteSets, TLC

VARIABLES pc, ctrl, kont, frames, objects, program

vars == <<pc, ctrl, kont, frames, objects, program>>

(* ---------------------------------------------------------------------- *)
(* Bounds of the explored inputs                                           *)
(* ---------------------------------------------------------------------- *)
MaxLen == 3

MaxParams == 2

MaxArgs == 3

(* ---------------------------------------------------------------------- *)
(* Runtime values (pithon.evaluator.envvalue)                              *)
(* ---------------------------------------------------------------------- *)
VNumber(n) == [tag |-> "VNumber", num |-> n]

VBool(b) == [tag |-> "VBool", bool |-> b]

VNone == [tag |-> "VNone"]

VString(s) == [tag |-> "VString", str |-> s]

VList(es) == [tag |-> "VList", elems |-> es]

VTuple(es) == [tag |-> "VTuple", elems |-> es]

VFunctionClosure(fd, env) == [tag |-> "VFunctionClosure", funcdef |-> fd, closure_env |-> env]

VClassDef(nm, ms) == [tag |-> "VClassDef", name |-> nm, methods |-> ms]

VObject(o) == [tag |-> "VObject", obj |-> o]

VMethodClosure(fn, inst) == [tag |-> "VMethodClosure", function |-> fn, instance |-> inst]

(* ---------------------------------------------------------------------- *)
(* Syntax tree nodes (pithon.syntax), with the fields the evaluator reads  *)
(* ---------------------------------------------------------------------- *)
PiNumber(n) == [t |-> "PiNumber", num |-> n]

PiBool(b) == [t |-> "PiBool", bool |-> b]

PiNone == [t |-> "PiNone"]

PiString(s) == [t |-> "PiString", str |-> s]

PiList(es) == [t |-> "PiList", elements |-> es]

PiTuple(es) == [t |-> "PiTuple", elements |-> es]

PiVariable(nm) == [t |-> "PiVariable", name |-> nm]

PiAssignment(nm, v) == [t |-> "PiAssignment", name |-> nm, value |-> v]

PiAttributeAssignment(o, a, v) == [t |-> "PiAttributeAssignment", object |-> o, attr |-> a, value |-> v]

PiAttribute(o, a) == [t |-> "PiAttribute", object |-> o, attr |-> a]

PiIfThenElse(c, th, el) == [t |-> "PiIfThenElse", condition |-> c, then_branch |-> th, else_branch |-> el]

PiNot(o) == [t |-> "PiNot", operand |-> o]

PiAnd(l, r) == [t |-> "PiAnd", left |-> l, right |-> r]

PiOr(l, r) == [t |-> "PiOr", left |-> l, right |-> r]

PiWhile(c, b) == [t |-> "PiWhile", condition |-> c, body |-> b]

PiFor(v, it, b) == [t |-> "PiFor", var |-> v, iterable |-> it, body |-> b]

PiFunctionDef(nm, an, va, b) == [t |-> "PiFunctionDef", name |-> nm, arg_names |-> an, vararg |-> va, body |-> b]

PiClassDef(nm, ms) == [t |-> "PiClassDef", name |-> nm, cmethods |-> ms]

PiReturn(v) == [t |-> "PiReturn", value |-> v]

PiBreak == [t |-> "PiBreak"]

PiContinue == [t |-> "PiContinue"]

PiFunctionCall(f, as) == [t |-> "PiFunctionCall", function |-> f, args |-> as]

PiSubscript(c, i) == [t |-> "PiSubscript", collection |-> c, index |-> i]

NoNode == [t |-> "none"]

(* vararg is Optional[str]: the empty string stands for None (both falsy) *)
NoVararg == ""

(* ---------------------------------------------------------------------- *)
(* Machine states                                                          *)
(* ---------------------------------------------------------------------- *)
EvalC(node, env) == [mode |-> "eval", node |-> node, env |-> env, val |-> VNone, kind |-> "", args |-> <<>>]

ValC(v) == [mode |-> "val", node |-> NoNode, env |-> 0, val |-> v, kind |-> "", args |-> <<>>]

RaiseC(kind, v) == [mode |-> "raise", node |-> NoNode, env |-> 0, val |-> v, kind |-> kind, args |-> <<>>]

ApplyC(fv, as) == [mode |-> "apply", node |-> NoNode, env |-> 0, val |-> fv, kind |-> "", args |-> as]

Push(k, ks) == <<k>> \o ks

(* ---------------------------------------------------------------------- *)
(* EnvFrame (pithon.evaluator.envframe)                                    *)
(* ---------------------------------------------------------------------- *)
NewFrame(parent) == [vars |-> <<>>, parent |-> parent]

Put(f, nm, v) == [x \in (DOMAIN f) \cup {nm} |-> IF x = nm THEN v ELSE f[x]]

Insert(fs, env, nm, v) == [fs EXCEPT ![env].vars = Put(fs[env].vars, nm, v)]

RECURSIVE Bound(_, _, _)
Bound(fs, env, nm) ==
    IF env = 0 THEN FALSE
    ELSE IF nm \in DOMAIN fs[env].vars THEN TRUE
    ELSE Bound(fs, fs[env].parent, nm)

RECURSIVE Lookup(_, _, _)
Lookup(fs, env, nm) ==
    IF nm \in DOMAIN fs[env].vars THEN fs[env].vars[nm]
    ELSE Lookup(fs, fs[env].parent, nm)

(* ---------------------------------------------------------------------- *)
(* evaluate(node, env) on a statement list                                 *)
(* ---------------------------------------------------------------------- *)
EvaluateCtrl(stmts, env) ==
    IF Len(stmts) = 0 THEN ValC(VNone) ELSE EvalC(stmts[1], env)

EvaluateKont(stmts, env, ks) ==
    IF Len(stmts) = 0 THEN ks
    ELSE Push([k |-> "Evaluate", stmts |-> stmts, idx |-> 1, env |-> env], ks)

Running == pc = "run"

Evaluating(ty) == Running /\ ctrl.mode = "eval" /\ ctrl.node.t = ty

Returning(kk) == Running /\ ctrl.mode = "val" /\ Len(kont) > 0 /\ kont[1].k = kk

Raising == Running /\ ctrl.mode = "raise"

Top == kont[1]

Rest == Tail(kont)

Keep == UNCHANGED <<pc, program>>

Heap == UNCHANGED <<frames, objects>>

(* for stmt in node: last_value = evaluate_stmt(stmt, env) *)
ContEvaluate ==
    /\ Returning("Evaluate")
    /\ IF Top.idx < Len(Top.stmts)
         THEN /\ ctrl' = EvalC(Top.stmts[Top.idx + 1], Top.env)
              /\ kont' = Push([Top EXCEPT !.idx = Top.idx + 1], Rest)
         ELSE /\ ctrl' = ValC(ctrl.val)
              /\ kont' = Rest
    /\ Heap /\ Keep

(* ---------------------------------------------------------------------- *)
(* Literals, collections, variables                                        *)
(* ---------------------------------------------------------------------- *)
EvalPiNumber ==
    /\ Evaluating("PiNumber")
    /\ ctrl' = ValC(VNumber(ctrl.node.num))
    /\ UNCHANGED kont /\ Heap /\ Keep

EvalPiBool ==
    /\ Evaluating("PiBool")
    /\ ctrl' = ValC(VBool(ctrl.node.bool))
    /\ UNCHANGED kont /\ Heap /\ Keep

EvalPiNone ==
    /\ Evaluating("PiNone")
    /\ ctrl' = ValC(VNone)
    /\ UNCHANGED kont /\ Heap /\ Keep

EvalPiString ==
    /\ Evaluating("PiString")
    /\ ctrl' = ValC(VString(ctrl.node.str))
    /\ UNCHANGED kont /\ Heap /\ Keep

(* elements = [evaluate_stmt(e, env) for e in node.elements] *)
EvalPiList ==
    /\ Evaluating("PiList")
    /\ IF Len(ctrl.node.elements) = 0
         THEN /\ ctrl' = ValC(VList(<<>>))
              /\ UNCHANGED kont
         ELSE /\ ctrl' = EvalC(ctrl.node.elements[1], ctrl.env)
              /\ kont' = Push([k |-> "PiList", node |-> ctrl.node, env |-> ctrl.env, vals |-> <<>>], kont)
    /\ Heap /\ Keep

ContPiList ==
    /\ Returning("PiList")
    /\ LET got == Append(Top.vals, ctrl.val)
       IN IF Len(got) < Len(Top.node.elements)
            THEN /\ ctrl' = EvalC(Top.node.elements[Len(got) + 1], Top.env)
                 /\ kont' = Push([Top EXCEPT !.vals = got], Rest)
            ELSE /\ ctrl' = ValC(VList(got))
                 /\ kont' = Rest
    /\ Heap /\ Keep

EvalPiTuple ==
    /\ Evaluating("PiTuple")
    /\ IF Len(ctrl.node.elements) = 0
         THEN /\ ctrl' = ValC(VTuple(<<>>))
              /\ UNCHANGED kont
         ELSE /\ ctrl' = EvalC(ctrl.node.elements[1], ctrl.env)
              /\ kont' = Push([k |-> "PiTuple", node |-> ctrl.node, env |-> ctrl.env, vals |-> <<>>], kont)
    /\ Heap /\ Keep

ContPiTuple ==
    /\ Returning("PiTuple")
    /\ LET got == Append(Top.vals, ctrl.val)
       IN IF Len(got) < Len(Top.node.elements)
            THEN /\ ctrl' = EvalC(Top.node.elements[Len(got) + 1], Top.env)
                 /\ kont' = Push([Top EXCEPT !.vals = got], Rest)
            ELSE /\ ctrl' = ValC(VTuple(got))
                 /\ kont' = Rest
    /\ Heap /\ Keep

EvalPiVariable ==
    /\ Evaluating("PiVariable")
    /\ ctrl' = IF Bound(frames, ctrl.env, ctrl.node.name)
                 THEN ValC(Lookup(frames, ctrl.env, ctrl.node.name))
                 ELSE RaiseC("NameError", VNone)
    /\ UNCHANGED kont /\ Heap /\ Keep

(* ---------------------------------------------------------------------- *)
(* Assignment, attributes                                                  *)
(* ---------------------------------------------------------------------- *)
EvalPiAssignment ==
    /\ Evaluating("PiAssignment")
    /\ ctrl' = EvalC(ctrl.node.value, ctrl.env)
    /\ kont' = Push([k |-> "PiAssignment", node |-> ctrl.node, env |-> ctrl.env], kont)
    /\ Heap /\ Keep

(* the frame insert(env, node.name, value) of an assignment writes to *)
AssignedFrameOuter(fs, env, nm) ==
    IF fs[env].parent # 0 /\ Bound(fs, fs[env].parent, nm) THEN fs[env].parent ELSE env

AssignedFrame(fs, env, nm) == env

ContPiAssignment ==
    /\ Returning("PiAssignment")
    /\ frames' = Insert(frames, AssignedFrame(frames, Top.env, Top.node.name), Top.node.name, ctrl.val)
    /\ ctrl' = ValC(ctrl.val)
    /\ kont' = Rest
    /\ UNCHANGED objects /\ Keep

EvalPiAttributeAssignment ==
    /\ Evaluating("PiAttributeAssignment")
    /\ ctrl' = EvalC(ctrl.node.object, ctrl.env)
    /\ kont' = Push([k |-> "AttrAssignObject", node |-> ctrl.node, env |-> ctrl.env], kont)
    /\ Heap /\ Keep

ContAttrAssignObject ==
    /\ Returning("AttrAssignObject")
    /\ IF ctrl.val.tag # "VObject"
         THEN /\ ctrl' = RaiseC("TypeError", VNone)
              /\ kont' = Rest
         ELSE /\ ctrl' = EvalC(Top.node.value, Top.env)
              /\ kont' = Push([k |-> "AttrAssignValue", node |-> Top.node, target |-> ctrl.val.obj], Rest)
    /\ Heap /\ Keep

ContAttrAssignValue ==
    /\ Returning("AttrAssignValue")
    /\ objects' = [objects EXCEPT ![Top.target].attributes = Put(objects[Top.target].attributes, Top.node.attr, ctrl.val)]
    /\ ctrl' = ValC(ctrl.val)
    /\ kont' = Rest
    /\ UNCHANGED frames /\ Keep

EvalPiAttribute ==
    /\ Evaluating("PiAttribute")
    /\ ctrl' = EvalC(ctrl.node.object, ctrl.env)
    /\ kont' = Push([k |-> "PiAttribute", node |-> ctrl.node, env |-> ctrl.env], kont)
    /\ Heap /\ Keep

(* obj.attr with the class's methods looked up before the instance's attributes *)
GetAttributeMethodFirst(objs, o, attr) ==
    IF attr \in DOMAIN objs[o].class_def.methods
      THEN ValC(VMethodClosure(objs[o].class_def.methods[attr], VObject(o)))
    ELSE IF attr \in DOMAIN objs[o].attributes
      THEN ValC(objs[o].attributes[attr])
    ELSE RaiseC("AttributeError", VNone)

(* the result of obj.attr for a VObject *)
GetAttribute(objs, o, attr) ==
    IF attr \in DOMAIN objs[o].attributes
      THEN ValC(objs[o].attributes[attr])
    ELSE IF attr \in DOMAIN objs[o].class_def.methods
      THEN ValC(VMethodClosure(objs[o].class_def.methods[attr], VObject(o)))
    ELSE RaiseC("AttributeError", VNone)

ContPiAttribute ==
    /\ Returning("PiAttribute")
    /\ ctrl' = IF ctrl.val.tag # "VObject"
                 THEN RaiseC("TypeError", VNone)
                 ELSE GetAttribute(objects, ctrl.val.obj, Top.node.attr)
    /\ kont' = Rest
    /\ Heap /\ Keep

(* ---------------------------------------------------------------------- *)
(* Conditional, not / and / or                                             *)
(* ---------------------------------------------------------------------- *)
EvalPiIfThenElse ==
    /\ Evaluating("PiIfThenElse")
    /\ ctrl' = EvalC(ctrl.node.condition, ctrl.env)
    /\ kont' = Push([k |-> "PiIfThenElse", node |-> ctrl.node, env |-> ctrl.env], kont)
    /\ Heap /\ Keep

ContPiIfThenElse ==
    /\ Returning("PiIfThenElse")
    /\ IF ctrl.val.tag # "VBool"
         THEN /\ ctrl' = RaiseC("TypeError", VNone)
              /\ kont' = Rest
         ELSE LET branch == IF ctrl.val.bool THEN Top.node.then_branch ELSE Top.node.else_branch
              IN /\ ctrl' = EvaluateCtrl(branch, Top.env)
                 /\ kont' = EvaluateKont(branch, Top.env, Rest)
    /\ Heap /\ Keep

(* _check_valid_piandor_type *)
ValidAndOrType(v) == v.tag \in {"VBool", "VNumber", "VString", "VNone", "VList", "VTuple"}

(* Python truth value of obj.value *)
Truthy(v) ==
    CASE v.tag = "VBool" -> v.bool
      [] v.tag = "VNumber" -> v.num # 0
      [] v.tag = "VString" -> Len(v.str) > 0
      [] v.tag = "VNone" -> FALSE
      [] v.tag = "VList" -> Len(v.elems) > 0
      [] v.tag = "VTuple" -> Len(v.elems) > 0

EvalPiNot ==
    /\ Evaluating("PiNot")
    /\ ctrl' = EvalC(ctrl.node.operand, ctrl.env)
    /\ kont' = Push([k |-> "PiNot"], kont)
    /\ Heap /\ Keep

ContPiNot ==
    /\ Returning("PiNot")
    /\ ctrl' = IF ValidAndOrType(ctrl.val) THEN ValC(VBool(~Truthy(ctrl.val))) ELSE RaiseC("TypeError", VNone)
    /\ kont' = Rest
    /\ Heap /\ Keep

EvalPiAnd ==
    /\ Evaluating("PiAnd")
    /\ ctrl' = EvalC(ctrl.node.left, ctrl.env)
    /\ kont' = Push([k |-> "AndLeft", node |-> ctrl.node, env |-> ctrl.env], kont)
    /\ Heap /\ Keep

AndReturnsLeftNever(left) == FALSE

(* if not left.value: return left *)
AndReturnsLeft(left) == ~Truthy(left)

ContAndLeft ==
    /\ Returning("AndLeft")
    /\ IF ~ValidAndOrType(ctrl.val)
         THEN /\ ctrl' = RaiseC("TypeError", VNone)
              /\ kont' = Rest
         ELSE IF AndReturnsLeft(ctrl.val)
         THEN /\ ctrl' = ValC(ctrl.val)
              /\ kont' = Rest
         ELSE /\ ctrl' = EvalC(Top.node.right, Top.env)
              /\ kont' = Push([k |-> "AndRight"], Rest)
    /\ Heap /\ Keep

ContAndRight ==
    /\ Returning("AndRight")
    /\ ctrl' = IF ValidAndOrType(ctrl.val) THEN ValC(ctrl.val) ELSE RaiseC("TypeError", VNone)
    /\ kont' = Rest
    /\ Heap /\ Keep

EvalPiOr ==
    /\ Evaluating("PiOr")
    /\ ctrl' = EvalC(ctrl.node.left, ctrl.env)
    /\ kont' = Push([k |-> "OrLeft", node |-> ctrl.node, env |-> ctrl.env], kont)
    /\ Heap /\ Keep

(* if left.value: return left *)
OrReturnsLeft(left) == Truthy(left)

ContOrLeft ==
    /\ Returning("OrLeft")
    /\ IF ~ValidAndOrType(ctrl.val)
         THEN /\ ctrl' = RaiseC("TypeError", VNone)
              /\ kont' = Rest
         ELSE IF OrReturnsLeft(ctrl.val)
         THEN /\ ctrl' = ValC(ctrl.val)
              /\ kont' = Rest
         ELSE /\ ctrl' = EvalC(Top.node.right, Top.env)
              /\ kont' = Push([k |-> "OrRight"], Rest)
    /\ Heap /\ Keep

ContOrRight ==
    /\ Returning("OrRight")
    /\ ctrl' = IF ValidAndOrType(ctrl.val) THEN ValC(ctrl.val) ELSE RaiseC("TypeError", VNone)
    /\ kont' = Rest
    /\ Heap /\ Keep

(* ---------------------------------------------------------------------- *)
(* Loops                                                                   *)
(* ---------------------------------------------------------------------- *)
LoopCatchesAny(kind) == kind \in {"BreakException", "ContinueException", "ReturnException"}

(* except BreakException / except ContinueException around a loop body *)
LoopCatches(kind) == kind \in {"BreakException", "ContinueException"}

EvalPiWhile ==
    /\ Evaluating("PiWhile")
    /\ ctrl' = EvalC(ctrl.node.condition, ctrl.env)
    /\ kont' = Push([k |-> "WhileCondition", node |-> ctrl.node, env |-> ctrl.env, last_value |-> VNone], kont)
    /\ Heap /\ Keep

ContWhileCondition ==
    /\ Returning("WhileCondition")
    /\ IF ctrl.val.tag # "VBool"
         THEN /\ ctrl' = RaiseC("TypeError", VNone)
              /\ kont' = Rest
         ELSE IF ~ctrl.val.bool
         THEN /\ ctrl' = ValC(Top.last_value)
              /\ kont' = Rest
         ELSE /\ ctrl' = EvaluateCtrl(Top.node.body, Top.env)
              /\ kont' = EvaluateKont(Top.node.body, Top.env, Push([Top EXCEPT !.k = "WhileBody"], Rest))
    /\ Heap /\ Keep

ContWhileBody ==
    /\ Returning("WhileBody")
    /\ ctrl' = EvalC(Top.node.condition, Top.env)
    /\ kont' = Push([Top EXCEPT !.k = "WhileCondition", !.last_value = ctrl.val], Rest)
    /\ Heap /\ Keep

CatchWhile ==
    /\ Raising /\ Len(kont) > 0 /\ Top.k = "WhileBody" /\ LoopCatches(ctrl.kind)
    /\ IF ctrl.kind = "BreakException"
         THEN /\ ctrl' = ValC(Top.last_value)
              /\ kont' = Rest
         ELSE /\ ctrl' = EvalC(Top.node.condition, Top.env)
              /\ kont' = Push([Top EXCEPT !.k = "WhileCondition"], Rest)
    /\ Heap /\ Keep

EvalPiFor ==
    /\ Evaluating("PiFor")
    /\ ctrl' = EvalC(ctrl.node.iterable, ctrl.env)
    /\ kont' = Push([k |-> "ForIterable", node |-> ctrl.node, env |-> ctrl.env], kont)
    /\ Heap /\ Keep

(* a for loop whose every iteration runs in a child frame of its own *)
ForIterationScoped(node, env, items, i, last, ks) ==
    IF i > Len(items)
      THEN /\ ctrl' = ValC(last)
           /\ kont' = ks
           /\ UNCHANGED frames
      ELSE /\ frames' = Insert(Append(frames, NewFrame(env)), Len(frames) + 1, node.var, items[i])
           /\ ctrl' = EvaluateCtrl(node.body, Len(frames) + 1)
           /\ kont' = EvaluateKont(node.body, Len(frames) + 1,
                  Push([k |-> "ForBody", node |-> node, env |-> env, items |-> items, idx |-> i, last_value |-> last], ks))

(* one turn of `for item in iterable`: ends the loop, or binds the loop *)
(* variable in env itself and starts the body in env                    *)
ForIteration(node, env, items, i, last, ks) ==
    IF i > Len(items)
      THEN /\ ctrl' = ValC(last)
           /\ kont' = ks
           /\ UNCHANGED frames
      ELSE /\ frames' = Insert(frames, env, node.var, items[i])
           /\ ctrl' = EvaluateCtrl(node.body, env)
           /\ kont' = EvaluateKont(node.body, env,
                  Push([k |-> "ForBody", node |-> node, env |-> env, items |-> items, idx |-> i, last_value |-> last], ks))

ContForIterable ==
    /\ Returning("ForIterable")
    /\ IF ctrl.val.tag \notin {"VList", "VTuple"}
         THEN /\ ctrl' = RaiseC("TypeError", VNone)
              /\ kont' = Rest
              /\ UNCHANGED frames
         ELSE ForIteration(Top.node, Top.env, ctrl.val.elems, 1, VNone, Rest)
    /\ UNCHANGED objects /\ Keep

ContForBody ==
    /\ Returning("ForBody")
    /\ ForIteration(Top.node, Top.env, Top.items, Top.idx + 1, ctrl.val, Rest)
    /\ UNCHANGED objects /\ Keep

CatchFor ==
    /\ Raising /\ Len(kont) > 0 /\ Top.k = "ForBody" /\ LoopCatches(ctrl.kind)
    /\ IF ctrl.kind = "BreakException"
         THEN /\ ctrl' = ValC(Top.last_value)
              /\ kont' = Rest
              /\ UNCHANGED frames
         ELSE ForIteration(Top.node, Top.env, Top.items, Top.idx + 1, Top.last_value, Rest)
    /\ UNCHANGED objects /\ Keep

(* ---------------------------------------------------------------------- *)
(* Definitions, return / break / continue                                  *)
(* ---------------------------------------------------------------------- *)
EvalPiFunctionDef ==
    /\ Evaluating("PiFunctionDef")
    /\ frames' = Insert(frames, ctrl.env, ctrl.node.name, VFunctionClosure(ctrl.node, ctrl.env))
    /\ ctrl' = ValC(VNone)
    /\ UNCHANGED <<kont, objects>> /\ Keep

(* methods[method.name] = method_closure, in order: the last one of a name stays *)
ClassMethods(ms, class_env) ==
    [nm \in {ms[i].name : i \in 1..Len(ms)} |->
        LET i == CHOOSE i \in 1..Len(ms) : ms[i].name = nm /\ \A j \in (i+1)..Len(ms) : ms[j].name # nm
        IN VFunctionClosure(ms[i], class_env)]

EvalPiClassDef ==
    /\ Evaluating("PiClassDef")
    /\ LET class_env == Len(frames) + 1
           class_def == VClassDef(ctrl.node.name, ClassMethods(ctrl.node.cmethods, class_env))
       IN frames' = Insert(Append(frames, NewFrame(ctrl.env)), ctrl.env, ctrl.node.name, class_def)
    /\ ctrl' = ValC(VNone)
    /\ UNCHANGED <<kont, objects>> /\ Keep

EvalPiReturn ==
    /\ Evaluating("PiReturn")
    /\ ctrl' = EvalC(ctrl.node.value, ctrl.env)
    /\ kont' = Push([k |-> "PiReturn"], kont)
    /\ Heap /\ Keep

ContPiReturn ==
    /\ Returning("PiReturn")
    /\ ctrl' = RaiseC("ReturnException", ctrl.val)
    /\ kont' = Rest
    /\ Heap /\ Keep

EvalPiBreak ==
    /\ Evaluating("PiBreak")
    /\ ctrl' = RaiseC("BreakException", VNone)
    /\ UNCHANGED kont /\ Heap /\ Keep

EvalPiContinue ==
    /\ Evaluating("PiContinue")
    /\ ctrl' = RaiseC("ContinueException", VNone)
    /\ UNCHANGED kont /\ Heap /\ Keep

(* ---------------------------------------------------------------------- *)
(* Calls                                                                   *)
(* ---------------------------------------------------------------------- *)
EvalPiFunctionCall ==
    /\ Evaluating("PiFunctionCall")
    /\ ctrl' = EvalC(ctrl.node.function, ctrl.env)
    /\ kont' = Push([k |-> "CallFunction", node |-> ctrl.node, env |-> ctrl.env], kont)
    /\ Heap /\ Keep

(* args = [evaluate_stmt(arg, env) for arg in node.args] *)
ContCallFunction ==
    /\ Returning("CallFunction")
    /\ IF Len(Top.node.args) = 0
         THEN /\ ctrl' = ApplyC(ctrl.val, <<>>)
              /\ kont' = Rest
         ELSE /\ ctrl' = EvalC(Top.node.args[1], Top.env)
              /\ kont' = Push([k |-> "CallArgs", node |-> Top.node, env |-> Top.env, func_val |-> ctrl.val, vals |-> <<>>], Rest)
    /\ Heap /\ Keep

ContCallArgs ==
    /\ Returning("CallArgs")
    /\ LET got == Append(Top.vals, ctrl.val)
       IN IF Len(got) < Len(Top.node.args)
            THEN /\ ctrl' = EvalC(Top.node.args[Len(got) + 1], Top.env)
                 /\ kont' = Push([Top EXCEPT !.vals = got], Rest)
            ELSE /\ ctrl' = ApplyC(Top.func_val, got)
                 /\ kont' = Rest
    /\ Heap /\ Keep

Applying(tag) == Running /\ ctrl.mode = "apply" /\ ctrl.val.tag = tag

Min(a, b) == IF a < b THEN a ELSE b

Max(a, b) == IF a < b THEN b ELSE a

(* Python's s[start:] for a list *)
SliceFrom(s, start) ==
    LET from == IF start < 0 THEN Max(Len(s) + start, 0) ELSE Min(start, Len(s))
    IN SubSeq(s, from + 1, Len(s))

(* the frames after the positional binding loop: names[i] gets args[i] until *)
(* the names or the arguments run out                                        *)
RECURSIVE BindPositional(_, _, _, _, _)
BindPositional(fs, env, names, args, i) ==
    IF i > Len(names) \/ i > Len(args) THEN fs
    ELSE BindPositional(Insert(fs, env, names[i], args[i]), env, names, args, i + 1)

(* the first statement of a body, or the call's result when the body is empty *)
BodyCtrl(body, env, empty_result) ==
    IF Len(body) = 0 THEN ValC(empty_result) ELSE EvalC(body[1], env)

BodyKont(kk, body, env, inst) ==
    IF Len(body) = 0 THEN <<>>
    ELSE <<[k |-> kk, stmts |-> body, idx |-> 1, env |-> env, instance |-> inst]>>

(* VClassDef: a new VObject, then __init__ if the class has one.  The result *)
(* is the machine's next ctrl, the activation pushed, the frames, the objects *)
CallClassDef(func_val, args, fs, objs) ==
    LET instance == VObject(Len(objs) + 1)
        objs1 == Append(objs, [class_def |-> func_val, attributes |-> <<>>])
    IN IF "__init__" \notin DOMAIN func_val.methods
         THEN [ctrl |-> ValC(instance), push |-> <<>>, frames |-> fs, objects |-> objs1]
         ELSE LET init_method == func_val.methods["__init__"]
                  arg_names == init_method.funcdef.arg_names
                  call_env == Len(fs) + 1
                  fs1 == Append(fs, NewFrame(init_method.closure_env))
                  fs2 == IF Len(arg_names) > 0 THEN Insert(fs1, call_env, arg_names[1], instance) ELSE fs1
                  rest == SliceFrom(arg_names, 1)
                  fs3 == BindPositional(fs2, call_env, rest, args, 1)
              IN IF Len(rest) > Len(args)
                   THEN [ctrl |-> RaiseC("TypeError", VNone), push |-> <<>>, frames |-> fs3, objects |-> objs1]
                   ELSE [ctrl |-> BodyCtrl(init_method.funcdef.body, call_env, instance),
                         push |-> BodyKont("InitBody", init_method.funcdef.body, call_env, instance),
                         frames |-> fs3, objects |-> objs1]

ApplyClassDef ==
    /\ Applying("VClassDef")
    /\ LET r == CallClassDef(ctrl.val, ctrl.args, frames, objects)
       IN /\ ctrl' = r.ctrl
          /\ kont' = r.push \o kont
          /\ frames' = r.frames
          /\ objects' = r.objects
    /\ Keep

ContInitBody ==
    /\ Returning("InitBody")
    /\ IF Top.idx < Len(Top.stmts)
         THEN /\ ctrl' = EvalC(Top.stmts[Top.idx + 1], Top.env)
              /\ kont' = Push([Top EXCEPT !.idx = Top.idx + 1], Rest)
         ELSE /\ ctrl' = ValC(Top.instance)
              /\ kont' = Rest
    /\ Heap /\ Keep

InitReturnValue(instance, ret) == ret

(* except ReturnException: pass, then return instance *)
InitReturn(instance, ret) == instance

CatchInitReturn ==
    /\ Raising /\ Len(kont) > 0 /\ Top.k = "InitBody" /\ ctrl.kind = "ReturnException"
    /\ ctrl' = ValC(InitReturn(Top.instance, ctrl.val))
    /\ kont' = Rest
    /\ Heap /\ Keep

(* VMethodClosure: self, the other parameters, varargs, then the body *)
CallMethodClosure(func_val, args, fs) ==
    LET funcdef == func_val.function.funcdef
        arg_names == funcdef.arg_names
        call_env == Len(fs) + 1
        fs1 == Append(fs, NewFrame(func_val.function.closure_env))
        fs2 == IF Len(arg_names) > 0 THEN Insert(fs1, call_env, arg_names[1], func_val.instance) ELSE fs1
        rest == SliceFrom(arg_names, 1)
        fs3 == BindPositional(fs2, call_env, rest, args, 1)
        fs4 == IF funcdef.vararg # NoVararg
                 THEN Insert(fs3, call_env, funcdef.vararg, VList(SliceFrom(args, Len(arg_names) - 1)))
                 ELSE fs3
    IN IF Len(rest) > Len(args)
         THEN [ctrl |-> RaiseC("TypeError", VNone), push |-> <<>>, frames |-> fs3]
       ELSE IF funcdef.vararg = NoVararg /\ Len(args) > Len(arg_names) - 1
         THEN [ctrl |-> RaiseC("TypeError", VNone), push |-> <<>>, frames |-> fs3]
       ELSE [ctrl |-> BodyCtrl(funcdef.body, call_env, VNone),
             push |-> BodyKont("MethodBody", funcdef.body, call_env, VNone),
             frames |-> fs4]

ApplyMethodClosure ==
    /\ Applying("VMethodClosure")
    /\ LET r == CallMethodClosure(ctrl.val, ctrl.args, frames)
       IN /\ ctrl' = r.ctrl
          /\ kont' = r.push \o kont
          /\ frames' = r.frames
    /\ UNCHANGED objects /\ Keep

ContMethodBody ==
    /\ Returning("MethodBody")
    /\ IF Top.idx < Len(Top.stmts)
         THEN /\ ctrl' = EvalC(Top.stmts[Top.idx + 1], Top.env)
              /\ kont' = Push([Top EXCEPT !.idx = Top.idx + 1], Rest)
         ELSE /\ ctrl' = ValC(ctrl.val)
              /\ kont' = Rest
    /\ Heap /\ Keep

CatchMethodReturn ==
    /\ Raising /\ Len(kont) > 0 /\ Top.k = "MethodBody" /\ ctrl.kind = "ReturnException"
    /\ ctrl' = ValC(ctrl.val)
    /\ kont' = Rest
    /\ Heap /\ Keep

(* VFunctionClosure: the parameters, varargs, then the body *)
CallFunctionClosure(func_val, args, fs) ==
    LET funcdef == func_val.funcdef
        arg_names == funcdef.arg_names
        call_env == Len(fs) + 1
        fs1 == Append(fs, NewFrame(func_val.closure_env))
        fs3 == BindPositional(fs1, call_env, arg_names, args, 1)
        fs4 == IF funcdef.vararg # NoVararg
                 THEN Insert(fs3, call_env, funcdef.vararg, VList(SliceFrom(args, Len(arg_names))))
                 ELSE fs3
    IN IF Len(arg_names) > Len(args)
         THEN [ctrl |-> RaiseC("TypeError", VNone), push |-> <<>>, frames |-> fs3]
       ELSE IF funcdef.vararg = NoVararg /\ Len(args) > Len(arg_names)
         THEN [ctrl |-> RaiseC("TypeError", VNone), push |-> <<>>, frames |-> fs3]
       ELSE [ctrl |-> BodyCtrl(funcdef.body, call_env, VNone),
             push |-> BodyKont("FunctionBody", funcdef.body, call_env, VNone),
             frames |-> fs4]

ApplyFunctionClosure ==
    /\ Applying("VFunctionClosure")
    /\ LET r == CallFunctionClosure(ctrl.val, ctrl.args, frames)
       IN /\ ctrl' = r.ctrl
          /\ kont' = r.push \o kont
          /\ frames' = r.frames
    /\ UNCHANGED objects /\ Keep

ContFunctionBody ==
    /\ Returning("FunctionBody")
    /\ IF Top.idx < Len(Top.stmts)
         THEN /\ ctrl' = EvalC(Top.stmts[Top.idx + 1], Top.env)
              /\ kont' = Push([Top EXCEPT !.idx = Top.idx + 1], Rest)
         ELSE /\ ctrl' = ValC(ctrl.val)
              /\ kont' = Rest
    /\ Heap /\ Keep

CatchFunctionReturn ==
    /\ Raising /\ Len(kont) > 0 /\ Top.k = "FunctionBody" /\ ctrl.kind = "ReturnException"
    /\ ctrl' = ValC(ctrl.val)
    /\ kont' = Rest
    /\ Heap /\ Keep

(* raise TypeError: the callee is no class, method or function *)
ApplyNonFunction ==
    /\ Running /\ ctrl.mode = "apply"
    /\ ctrl.val.tag \notin {"VClassDef", "VMethodClosure", "VFunctionClosure"}
    /\ ctrl' = RaiseC("TypeError", VNone)
    /\ UNCHANGED kont /\ Heap /\ Keep

(* ---------------------------------------------------------------------- *)
(* Subscript                                                               *)
(* ---------------------------------------------------------------------- *)
EvalPiSubscript ==
    /\ Evaluating("PiSubscript")
    /\ ctrl' = EvalC(ctrl.node.collection, ctrl.env)
    /\ kont' = Push([k |-> "SubscriptCollection", node |-> ctrl.node, env |-> ctrl.env], kont)
    /\ Heap /\ Keep

ContSubscriptCollection ==
    /\ Returning("SubscriptCollection")
    /\ ctrl' = EvalC(Top.node.index, Top.env)
    /\ kont' = Push([k |-> "SubscriptIndex", collection |-> ctrl.val], Rest)
    /\ Heap /\ Keep

IndexInRangeNonNegative(n, i) == 0 <= i /\ i < n

(* whether Python's seq[i] on a sequence of length n raises no IndexError *)
IndexInRange(n, i) == -n <= i /\ i < n

(* Python's seq[i]: a negative index counts from the end *)
ItemAt(seq, i) == IF i >= 0 THEN seq[i + 1] ELSE seq[Len(seq) + i + 1]

(* _evaluate_subscript once collection and index are evaluated *)
Subscript(collection, index) ==
    IF collection.tag = "VList" \/ collection.tag = "VTuple"
      THEN IF index.tag # "VNumber" THEN RaiseC("TypeError", VNone)
           ELSE IF IndexInRange(Len(collection.elems), index.num)
             THEN ValC(ItemAt(collection.elems, index.num))
             ELSE RaiseC("IndexError", VNone)
    ELSE IF collection.tag = "VString"
      THEN IF index.tag # "VNumber" THEN RaiseC("TypeError", VNone)
           ELSE IF IndexInRange(Len(collection.str), index.num)
             THEN ValC(VString(<<ItemAt(collection.str, index.num)>>))
             ELSE RaiseC("IndexError", VNone)
    ELSE RaiseC("TypeError", VNone)

ContSubscriptIndex ==
    /\ Returning("SubscriptIndex")
    /\ ctrl' = Subscript(Top.collection, ctrl.val)
    /\ kont' = Rest
    /\ Heap /\ Keep

(* ---------------------------------------------------------------------- *)
(* Exceptions leaving an activation, the end of evaluate                   *)
(* ---------------------------------------------------------------------- *)
(* whether the activation kk has an except clause for the exception kind *)
Handles(kk, kind) ==
    \/ kk \in {"WhileBody", "ForBody"} /\ LoopCatches(kind)
    \/ kk \in {"InitBody", "MethodBody", "FunctionBody"} /\ kind = "ReturnException"

Propagate ==
    /\ Raising /\ Len(kont) > 0 /\ ~Handles(Top.k, ctrl.kind)
    /\ kont' = Rest
    /\ UNCHANGED ctrl /\ Heap /\ Keep

EvaluateReturns ==
    /\ Running /\ ctrl.mode = "val" /\ Len(kont) = 0
    /\ pc' = "done"
    /\ UNCHANGED <<ctrl, kont, frames, objects, program>>

EvaluateRaises ==
    /\ Raising /\ Len(kont) = 0
    /\ pc' = "raised"
    /\ UNCHANGED <<ctrl, kont, frames, objects, program>>

(* ---------------------------------------------------------------------- *)
(* The programs evaluated                                                  *)
(* ---------------------------------------------------------------------- *)
Var(nm) == PiVariable(nm)

Num(n) == PiNumber(n)

Call(f, as) == PiFunctionCall(Var(f), as)

Def(nm, an, b) == PiFunctionDef(nm, an, NoVararg, b)

(* def f(a): for x in [1,2,3]: while t: if t: return x ... ; r = f(5) *)
ReturnProgram ==
    << PiAssignment("t", PiBool(TRUE)),
       Def("f", <<"a">>,
           << PiFor("x", PiList(<<Num(1), Num(2), Num(3)>>),
                 << PiWhile(Var("t"),
                       << PiIfThenElse(Var("t"),
                              << PiReturn(Var("x")), PiAssignment("after_return", Num(1)) >>,
                              << >>),
                          PiAssignment("after_if", Num(1)) >>),
                    PiAssignment("after_while", Num(1)) >>),
              PiAssignment("after_for", Num(1)) >>),
       PiAssignment("r", Call("f", <<Num(5)>>)),
       Var("r") >>

(* a class with __init__ returning early, a method returning from a loop *)
ObjectProgram ==
    << PiClassDef("C",
           << Def("__init__", <<"self", "v">>,
                  << PiAttributeAssignment(Var("self"), "val", Var("v")),
                     PiReturn(Num(5)),
                     PiAttributeAssignment(Var("self"), "val", Num(0)) >>),
              Def("m", <<"self", "x">>,
                  << PiWhile(PiBool(TRUE), << PiReturn(PiTuple(<<Var("self"), Var("x")>>)) >>),
                     PiAssignment("after_while", Num(1)) >>),
              Def("get", <<"self">>, << PiAttribute(Var("self"), "val") >>),
              Def("nop", <<"self">>, << >>) >>),
       PiAssignment("c", Call("C", <<Num(7)>>)),
       PiAssignment("d", Call("C", <<Num(8)>>)),
       PiAttribute(Var("c"), "val"),
       PiAssignment("b1", PiAttribute(Var("c"), "m")),
       PiAssignment("b2", PiAttribute(Var("c"), "m")),
       PiAssignment("r1", Call("b1", <<Num(5)>>)),
       PiAssignment("r2", Call("b2", <<Num(6)>>)),
       PiFunctionCall(PiAttribute(Var("d"), "get"), << >>),
       PiFunctionCall(PiAttribute(Var("d"), "nop"), << >>),
       PiAttributeAssignment(Var("c"), "m", Num(3)),
       PiAttribute(Var("c"), "m"),
       PiAttribute(Var("d"), "m"),
       PiAttribute(Var("d"), "missing") >>

(* classes without __init__, with an __init__ of no parameter, of an empty body *)
PlainClassProgram ==
    << PiClassDef("E", << Def("m", <<"self">>, << Num(1) >>), Def("m", <<"self">>, << Num(2) >>) >>),
       PiClassDef("Z", << Def("__init__", << >>, << PiAssignment("local", Num(1)) >>) >>),
       PiClassDef("Y", << Def("__init__", <<"self">>, << >>) >>),
       PiAssignment("e", Call("E", << >>)),
       PiAssignment("z", Call("Z", << >>)),
       PiAssignment("y", Call("Y", << >>)),
       PiFunctionCall(PiAttribute(Var("e"), "m"), << >>),
       Def("empty", << >>, << >>),
       Call("empty", << >>),
       Def("last", << >>, << Num(1), Num(2) >>),
       Call("last", << >>) >>

(* a break / continue raised in a callee whose caller is inside a loop *)
SignalProgram(stmt, callee, loop) ==
    LET call == IF callee = "function" THEN Call("g", << >>)
                ELSE IF callee = "class" THEN Call("K", << >>)
                ELSE PiFunctionCall(PiAttribute(Var("o"), "m"), << >>)
    IN << Def("g", << >>, << stmt, PiAssignment("after_signal", Num(1)) >>),
          PiClassDef("K", << Def("__init__", <<"self">>, << stmt >>) >>),
          PiClassDef("M", << Def("m", <<"self">>, << stmt >>) >>),
          PiAssignment("o", Call("M", << >>)),
          PiAssignment("n", Num(0)),
          PiAssignment("go", PiBool(TRUE)),
          IF loop = "for"
            THEN PiFor("x", PiList(<<Num(1), Num(2)>>), << call, PiAssignment("n", Var("x")) >>)
            ELSE PiWhile(Var("go"), << PiAssignment("go", PiBool(FALSE)), call, PiAssignment("n", Num(1)) >>),
          Var("n") >>

(* loops in a function whose enclosing frame binds the same names *)
ForProgram(items, stop) ==
    << PiAssignment("x", Num(0)),
       PiAssignment("y", Num(0)),
       Def("h", << >>,
           << PiFor("x", items,
                  << PiIfThenElse(PiBool(stop = "continue"), << PiContinue >>, << >>),
                     PiAssignment("y", Var("x")),
                     PiIfThenElse(PiBool(stop = "break"), << PiBreak >>, << >>),
                     Def("inner", << >>, << >>) >>),
              PiTuple(<<Var("x"), Var("y")>>) >>),
       PiAssignment("hr", Call("h", << >>)),
       PiFor("k", PiTuple(<<Num(1), Num(2)>>), << PiAssignment("k2", Var("k")) >>),
       PiTuple(<<Var("x"), Var("y"), Var("hr"), Var("k"), Var("k2")>>) >>

WhileProgram ==
    << PiAssignment("a", PiBool(TRUE)),
       PiAssignment("b", PiBool(TRUE)),
       PiWhile(Var("a"),
           << PiIfThenElse(Var("b"),
                  << PiAssignment("b", PiBool(FALSE)), PiContinue, PiAssignment("skipped", Num(1)) >>,
                  << PiAssignment("a", PiBool(FALSE)) >>),
              Num(4) >>),
       PiWhile(PiBool(TRUE), << PiBreak >>),
       PiWhile(PiBool(TRUE), << PiAssignment("once", Num(1)), PiBreak >>),
       PiWhile(Var("a"), << >>),
       PiNot(Var("a")),
       PiNot(PiList(<< >>)),
       PiTuple(<< >>) >>

(* assignments and definitions in a call frame that shadow outer bindings *)
ScopeProgram ==
    << PiAssignment("x", Num(1)),
       Def("g", << >>, << Num(0) >>),
       PiClassDef("D", << >>),
       Def("f", <<"p">>,
           << PiAssignment("x", Num(2)),
              PiAssignment("p", PiAssignment("q", Num(3))),
              Def("g", << >>, << Num(9) >>),
              PiClassDef("D", << Def("m", <<"self">>, << >>) >>),
              Def("inner", << >>, << PiAssignment("x", Num(4)), Var("p") >>),
              Call("inner", << >>),
              Var("x") >>),
       Call("f", <<Num(7)>>),
       Var("x") >>

(* and / or whose right operand would write, or fail, if it were evaluated *)
BoolOperands ==
    << PiBool(FALSE), PiBool(TRUE), Num(0), Num(2), PiNone, PiString(<< >>), PiString(<<"a">>),
       PiList(<< >>), PiTuple(<<Num(1)>>), Var("f") >>

RightOperands == << PiAssignment("w", Num(1)), Var("undefined"), Var("f"), PiString(<<"r">>) >>

AndOrProgram(op, l, r) ==
    << Def("f", << >>, << >>),
       PiAssignment("res", IF op = "and" THEN PiAnd(BoolOperands[l], RightOperands[r])
                                       ELSE PiOr(BoolOperands[l], RightOperands[r])),
       Var("w") >>

(* programs that end with a type error *)
TypeErrorPrograms ==
    << << PiIfThenElse(Num(1), << >>, << >>) >>,
       << PiWhile(Num(1), << >>) >>,
       << PiFor("x", Num(1), << >>) >>,
       << PiFunctionCall(Num(1), <<Num(2)>>) >>,
       << PiFunctionCall(PiNone, << >>) >>,
       << PiAttribute(Num(1), "a") >>,
       << PiAttributeAssignment(Num(1), "a", Num(2)) >>,
       << Def("f", << >>, << >>), PiNot(Var("f")) >>,
       << PiSubscript(Num(1), Num(0)) >>,
       << PiSubscript(PiList(<<Num(1)>>), PiBool(TRUE)) >>,
       << PiSubscript(PiString(<<"a">>), PiNone) >>,
       << PiReturn(Num(1)) >>,
       << PiList(<<Num(1), PiList(<< >>), Var("undefined")>>) >> >>

ParamNames == <<"a", "b", "c", "d", "e", "f">>

Chars == <<"a", "b", "c", "d", "e", "f">>

Numbers(n) == [i \in 1..n |-> Num(i)]

(* def callee(<np names>[, *rest]): mark = 1; return mark or rest -- called with na arguments *)
CalleeDef(nm, arg_names, variadic) ==
    PiFunctionDef(nm, arg_names, IF variadic THEN "rest" ELSE NoVararg,
        << PiAssignment("mark", Num(1)),
           PiReturn(IF variadic THEN Var("rest") ELSE Var("mark")) >>)

CallProgram(kind, np, variadic, na) ==
    IF kind = "function"
      THEN << CalleeDef("callee", SubSeq(ParamNames, 1, np), variadic),
              PiAssignment("r", Call("callee", Numbers(na))) >>
    ELSE IF kind = "method"
      THEN << PiClassDef("K", << CalleeDef("callee", SubSeq(<<"self">> \o ParamNames, 1, np), variadic) >>),
              PiAssignment("o", Call("K", << >>)),
              PiAssignment("r", PiFunctionCall(PiAttribute(Var("o"), "callee"), Numbers(na))) >>
    ELSE << PiClassDef("K", << CalleeDef("__init__", SubSeq(<<"self">> \o ParamNames, 1, np), variadic) >>),
            PiAssignment("r", Call("K", Numbers(na))) >>

SubscriptProgram(kind, n, i) ==
    << PiAssignment("r",
          PiSubscript(
              IF kind = "list" THEN PiList([j \in 1..n |-> Num(10 * j)])
              ELSE IF kind = "tuple" THEN PiTuple([j \in 1..n |-> Num(10 * j)])
              ELSE PiString(SubSeq(Chars, 1, n)),
              Num(i))) >>

Programs ==
    << ReturnProgram, ObjectProgram, PlainClassProgram, WhileProgram, ScopeProgram >>
    \o TypeErrorPrograms

InitialState(prog) ==
    /\ program = prog
    /\ pc = "run"
    /\ ctrl = EvaluateCtrl(prog, 1)
    /\ kont = EvaluateKont(prog, 1, <<>>)
    /\ frames = <<NewFrame(0)>>
    /\ objects = <<>>

Init ==
    \/ \E i \in 1..Len(Programs) : InitialState(Programs[i])
    \/ \E stmt \in {PiBreak, PiContinue}, callee \in {"function", "method", "class"}, loop \in {"for", "while"} :
           InitialState(SignalProgram(stmt, callee, loop))
    \/ \E n \in 0..MaxLen, kind \in {"list", "tuple"}, stop \in {"none", "break", "continue"} :
           InitialState(ForProgram(IF kind = "list" THEN PiList(Numbers(n)) ELSE PiTuple(Numbers(n)), stop))
    \/ \E op \in {"and", "or"}, l \in 1..Len(BoolOperands), r \in 1..Len(RightOperands) :
           InitialState(AndOrProgram(op, l, r))
    \/ \E kind \in {"function", "method", "class"}, np \in 0..MaxParams, variadic \in BOOLEAN, na \in 0..MaxArgs :
           InitialState(CallProgram(kind, np, variadic, na))
    \/ \E kind \in {"list", "tuple", "string"}, n \in 0..MaxLen, i \in (-(MaxLen + 1))..(MaxLen + 1) :
           InitialState(SubscriptProgram(kind, n, i))

Next ==
    \/ ContEvaluate
    \/ EvalPiNumber \/ EvalPiBool \/ EvalPiNone \/ EvalPiString
    \/ EvalPiList \/ ContPiList \/ EvalPiTuple \/ ContPiTuple
    \/ EvalPiVariable
    \/ EvalPiAssignment \/ ContPiAssignment
    \/ EvalPiAttributeAssignment \/ ContAttrAssignObject \/ ContAttrAssignValue
    \/ EvalPiAttribute \/ ContPiAttribute
    \/ EvalPiIfThenElse \/ ContPiIfThenElse
    \/ EvalPiNot \/ ContPiNot
    \/ EvalPiAnd \/ ContAndLeft \/ ContAndRight
    \/ EvalPiOr \/ ContOrLeft \/ ContOrRight
    \/ EvalPiWhile \/ ContWhileCondition \/ ContWhileBody \/ CatchWhile
    \/ EvalPiFor \/ ContForIterable \/ ContForBody \/ CatchFor
    \/ EvalPiFunctionDef \/ EvalPiClassDef
    \/ EvalPiReturn \/ ContPiReturn \/ EvalPiBreak \/ EvalPiContinue
    \/ EvalPiFunctionCall \/ ContCallFunction \/ ContCallArgs
    \/ ApplyClassDef \/ ContInitBody \/ CatchInitReturn
    \/ ApplyMethodClosure \/ ContMethodBody \/ CatchMethodReturn
    \/ ApplyFunctionClosure \/ ContFunctionBody \/ CatchFunctionReturn
    \/ ApplyNonFunction
    \/ EvalPiSubscript \/ ContSubscriptCollection \/ ContSubscriptIndex
    \/ Propagate \/ EvaluateReturns \/ EvaluateRaises

Spec == Init /\ [][Next]_vars

(* ---------------------------------------------------------------------- *)
(* Properties                                                              *)
(* ---------------------------------------------------------------------- *)
BodyKinds == {"FunctionBody", "MethodBody", "InitBody"}

ReturnInFlight ==
    Running /\ ctrl.mode = "raise" /\ ctrl.kind = "ReturnException" /\ Len(kont) > 0

(* from the moment a return is raised, every step only leaves one pending *)
(* activation of the callee, changing no frame and no object, until the   *)
(* call's own activation is left with the returned value as its result    *)
ReturnStep ==
    ReturnInFlight =>
        /\ frames' = frames
        /\ objects' = objects
        /\ kont' = Tail(kont)
        /\ IF kont[1].k \in {"FunctionBody", "MethodBody"} THEN ctrl' = ValC(ctrl.val)
           ELSE IF kont[1].k = "InitBody" THEN ctrl'.mode = "val"
           ELSE ctrl' = ctrl

(* f(5) of ReturnProgram returns the first x from inside for / while / if, *)
(* and its frame holds the parameter and the loop variable only            *)
ReturnProgramResult ==
    (pc # "run" /\ program = ReturnProgram) =>
        /\ pc = "done"
        /\ ctrl.val = VNumber(1)
        /\ Len(frames) = 2
        /\ DOMAIN frames[2].vars = {"a", "x"}
        /\ DOMAIN frames[1].vars = {"t", "f", "r"}

(* C1: a return executed anywhere inside a function or method body, at any  *)
(* depth of if / while / for, ends the call at once with the returned value; *)
(* no later statement of the body is evaluated and no frame or object       *)
(* changes while the call is being left.                                    *)
C1_ReturnUnwinds == [][ReturnStep]_vars /\ []ReturnProgramResult

C1_Witness ==
    /\ program = ReturnProgram
    /\ pc = "done"
    /\ ctrl.val = VNumber(1)
    /\ frames[2].vars["x"] = VNumber(1)

(* a step taken with a control-flow signal in flight at the body of a call *)
SignalAtCallBoundary ==
    /\ Running /\ ctrl.mode = "raise" /\ Len(kont) > 0
    /\ ctrl.kind \in {"ReturnException", "BreakException", "ContinueException"}
    /\ kont[1].k \in BodyKinds

(* C2: no control-flow signal crosses a function boundary: when a Return,   *)
(* Break or Continue signal reaches the body of a function, method or       *)
(* constructor call, the call ends with a value or an ordinary error, and   *)
(* the caller never observes the signal.                                    *)
C2_NoSignalCrossesCall ==
    [][SignalAtCallBoundary =>
          (ctrl'.mode = "val" \/ (ctrl'.mode = "raise" /\ ctrl'.kind \in {"TypeError", "NameError", "AttributeError", "IndexError"}))]_vars

(* the parameters a callee declares besides the receiver, and its variadic name *)
DeclaredParams(fv) ==
    IF fv.tag = "VFunctionClosure" THEN Len(fv.funcdef.arg_names)
    ELSE IF fv.tag = "VMethodClosure" THEN Max(Len(fv.function.funcdef.arg_names) - 1, 0)
    ELSE Max(Len(fv.methods["__init__"].funcdef.arg_names) - 1, 0)

DeclaredVararg(fv) ==
    IF fv.tag = "VFunctionClosure" THEN fv.funcdef.vararg
    ELSE IF fv.tag = "VMethodClosure" THEN fv.function.funcdef.vararg
    ELSE fv.methods["__init__"].funcdef.vararg

(* a call about to be dispatched whose callee binds parameters *)
BindingCall ==
    /\ Running /\ ctrl.mode = "apply"
    /\ \/ ctrl.val.tag \in {"VFunctionClosure", "VMethodClosure"}
       \/ ctrl.val.tag = "VClassDef" /\ "__init__" \in DOMAIN ctrl.val.methods

ArityMismatch ==
    \/ Len(ctrl.args) < DeclaredParams(ctrl.val)
    \/ DeclaredVararg(ctrl.val) = NoVararg /\ Len(ctrl.args) > DeclaredParams(ctrl.val)

(* C3: a call of a function, a method or a class with __init__ that gives   *)
(* fewer arguments than the declared parameters (receiver not counted), or  *)
(* more when no variadic parameter is declared, fails with an argument      *)
(* error: the body is not started and no Object is returned.                *)
C3_ArityMismatchFails ==
    [][(BindingCall /\ ArityMismatch) =>
          (ctrl'.mode = "raise" /\ ctrl'.kind = "TypeError" /\ kont' = kont)]_vars

(* the step that dispatches a constructor call *)
ConstructStep ==
    (Running /\ ctrl.mode = "apply" /\ ctrl.val.tag = "VClassDef") =>
        LET new == Len(objects) + 1
            instance == VObject(new)
        IN /\ Len(objects') = new
           /\ \A o \in 1..Len(objects) : objects'[o] = objects[o]
           /\ objects'[new].class_def = ctrl.val
           /\ DOMAIN objects'[new].attributes = {}
           /\ \A f \in 1..Len(frames) : frames'[f] = frames[f]
           /\ IF "__init__" \notin DOMAIN ctrl.val.methods
                THEN ctrl' = ValC(instance) /\ kont' = kont /\ frames' = frames
                ELSE LET init == ctrl.val.methods["__init__"]
                         names == init.funcdef.arg_names
                         call_env == Len(frames) + 1
                     IN ctrl'.mode # "raise" =>
                          /\ Len(frames') = call_env
                          /\ frames'[call_env].parent = init.closure_env
                          /\ DOMAIN frames'[call_env].vars = {names[i] : i \in 1..Len(names)}
                          /\ Len(names) > 0 => frames'[call_env].vars[names[1]] = instance
                          /\ \A i \in 2..Len(names) : frames'[call_env].vars[names[i]] = ctrl.args[i - 1]
                          /\ IF Len(init.funcdef.body) = 0
                               THEN ctrl' = ValC(instance) /\ kont' = kont
                               ELSE /\ ctrl' = EvalC(init.funcdef.body[1], call_env)
                                    /\ kont'[1].k = "InitBody"
                                    /\ kont'[1].instance = instance
                                    /\ Tail(kont') = kont

(* the step that ends __init__: its last statement's value, or a return *)
ConstructedStep ==
    (/\ Running /\ Len(kont) > 0 /\ kont[1].k = "InitBody"
     /\ \/ ctrl.mode = "val" /\ kont[1].idx = Len(kont[1].stmts)
        \/ ctrl.mode = "raise" /\ ctrl.kind = "ReturnException") =>
        /\ ctrl' = ValC(kont[1].instance)
        /\ kont' = Tail(kont)
        /\ frames' = frames
        /\ objects' = objects

(* C(7) and C(8) of ObjectProgram: two objects, val written before the return *)
ObjectProgramConstructed ==
    (program = ObjectProgram /\ "d" \in DOMAIN frames[1].vars) =>
        /\ frames[1].vars["c"] = VObject(1)
        /\ frames[1].vars["d"] = VObject(2)
        /\ objects[1].attributes["val"] = VNumber(7)
        /\ objects[2].attributes["val"] = VNumber(8)
        /\ objects[1].class_def = frames[1].vars["C"]

(* C4: calling a ClassDef yields a newly created Object of that class,      *)
(* distinct from every existing Object and with no attribute; __init__, if  *)
(* defined, runs in a fresh child frame of its captured frame with the      *)
(* first parameter bound to the new Object and the others positionally; a   *)
(* return in __init__ stops its body, its value is dropped and the result   *)
(* is the new Object with the attributes written so far.                    *)
C4_ConstructorYieldsNewObject ==
    [][ConstructStep /\ ConstructedStep]_vars /\ []ObjectProgramConstructed

C4_Witness ==
    /\ program = ObjectProgram
    /\ "d" \in DOMAIN frames[1].vars
    /\ frames[1].vars["d"] = VObject(2)
    /\ objects[2].attributes["val"] = VNumber(8)

(* the step leaves every binding alone but that of nm in frame F, which it *)
(* sets to v; no frame changes its parent                                  *)
WritesOnly(F, nm, v) ==
    /\ Len(frames') >= Len(frames)
    /\ \A f \in 1..Len(frames) :
          /\ frames'[f].parent = frames[f].parent
          /\ DOMAIN frames'[f].vars = DOMAIN frames[f].vars \cup (IF f = F THEN {nm} ELSE {})
          /\ \A x \in DOMAIN frames[f].vars : (f # F \/ x # nm) => frames'[f].vars[x] = frames[f].vars[x]
    /\ frames'[F].vars[nm] = v

(* a for loop about to take its next turn: after its iterable, after a body, *)
(* or after a continue                                                       *)
ForTurns ==
    /\ Running /\ Len(kont) > 0
    /\ \/ ctrl.mode = "val" /\ kont[1].k = "ForIterable" /\ ctrl.val.tag \in {"VList", "VTuple"}
       \/ ctrl.mode = "val" /\ kont[1].k = "ForBody"
       \/ ctrl.mode = "raise" /\ kont[1].k = "ForBody" /\ ctrl.kind = "ContinueException"

ForBreaks ==
    /\ Running /\ Len(kont) > 0
    /\ ctrl.mode = "raise" /\ kont[1].k = "ForBody" /\ ctrl.kind = "BreakException"

ForStep ==
    /\ ForTurns =>
          LET items == IF kont[1].k = "ForIterable" THEN ctrl.val.elems ELSE kont[1].items
              i == IF kont[1].k = "ForIterable" THEN 1 ELSE kont[1].idx + 1
              F == kont[1].env
          IN IF i <= Len(items)
               THEN /\ Len(frames') = Len(frames)
                    /\ WritesOnly(F, kont[1].node.var, items[i])
                    /\ ctrl'.mode = "eval" => ctrl'.env = F
               ELSE frames' = frames /\ ctrl'.mode = "val" /\ kont' = Tail(kont)
    /\ ForBreaks => (frames' = frames /\ ctrl'.mode = "val" /\ kont' = Tail(kont))

(* what h() of ForProgram returns: the loop variable and y as seen in h's frame *)
ForExpected(n, stop) ==
    IF n = 0 THEN <<VNumber(0), VNumber(0)>>
    ELSE IF stop = "break" THEN <<VNumber(1), VNumber(1)>>
    ELSE IF stop = "continue" THEN <<VNumber(n), VNumber(0)>>
    ELSE <<VNumber(n), VNumber(n)>>

ForProgramResult ==
    pc # "run" =>
      \A n \in 0..MaxLen, kind \in {"list", "tuple"}, stop \in {"none", "break", "continue"} :
        program = ForProgram(IF kind = "list" THEN PiList(Numbers(n)) ELSE PiTuple(Numbers(n)), stop) =>
            /\ pc = "done"
            /\ ctrl.val = VTuple(<<VNumber(0), VNumber(0), VTuple(ForExpected(n, stop)), VNumber(2), VNumber(2)>>)
            /\ Len(frames) = 2

(* C5: a for loop over a List or Tuple creates no frame: the loop variable  *)
(* and the names its body assigns are written into the frame the loop runs  *)
(* in, where they stay after the loop ends (normally or by break) with the  *)
(* last element bound and the last value assigned, shadowing the parent's   *)
(* bindings of the same names, which do not change.                         *)
C5_ForWritesEnclosingFrame == [][ForStep]_vars /\ []ForProgramResult

C5_Witness ==
    /\ program = ForProgram(PiList(Numbers(MaxLen)), "break")
    /\ pc = "done"
    /\ frames[2].vars["x"] = VNumber(1)
    /\ frames[2].vars["y"] = VNumber(1)
    /\ frames[1].vars["x"] = VNumber(0)
    /\ frames[1].vars["k"] = VNumber(2)

DefinitionStep ==
    /\ Returning("PiAssignment") =>
          /\ Len(frames') = Len(frames)
          /\ WritesOnly(kont[1].env, kont[1].node.name, ctrl.val)
          /\ ctrl' = ValC(ctrl.val)
    /\ Evaluating("PiFunctionDef") =>
          /\ Len(frames') = Len(frames)
          /\ WritesOnly(ctrl.env, ctrl.node.name, VFunctionClosure(ctrl.node, ctrl.env))
    /\ Evaluating("PiClassDef") =>
          /\ Len(frames') = Len(frames) + 1
          /\ frames'[Len(frames')] = NewFrame(ctrl.env)
          /\ WritesOnly(ctrl.env, ctrl.node.name, frames'[ctrl.env].vars[ctrl.node.name])
          /\ frames'[ctrl.env].vars[ctrl.node.name].tag = "VClassDef"

(* ScopeProgram: f writes x, p, q, g, D in its own frame, inner writes x in its own *)
ScopeProgramResult ==
    (pc # "run" /\ program = ScopeProgram) =>
        /\ pc = "done"
        /\ ctrl.val = VNumber(1)
        /\ DOMAIN frames[1].vars = {"x", "g", "D", "f"}
        /\ frames[1].vars["x"] = VNumber(1)
        /\ frames[1].vars["g"].funcdef.body = <<Num(0)>>
        /\ DOMAIN frames[1].vars["D"].methods = {}
        /\ DOMAIN frames[3].vars = {"p", "x", "q", "g", "D", "inner"}
        /\ frames[3].vars["x"] = VNumber(2)
        /\ frames[3].vars["p"] = VNumber(3)
        /\ frames[5].vars = [x |-> VNumber(4)]

(* C6: an assignment, a function definition or a class definition evaluated *)
(* in frame F inserts or overwrites the binding in F only: every binding of *)
(* every other frame, the ancestors' bindings of the same name included, is *)
(* unchanged, and the assignment's value is the assigned value.             *)
C6_DefinitionsWriteCurrentFrame == [][DefinitionStep]_vars /\ []ScopeProgramResult

C6_Witness ==
    /\ program = ScopeProgram
    /\ Len(frames) >= 3
    /\ "x" \in DOMAIN frames[3].vars
    /\ frames[3].vars["x"] = VNumber(2)
    /\ frames[1].vars["x"] = VNumber(1)

(* the step that resolves obj.attr on a VObject *)
AttributeStep ==
    (Returning("PiAttribute") /\ ctrl.val.tag = "VObject") =>
        LET o == ctrl.val.obj
            attr == kont[1].node.attr
        IN /\ IF attr \in DOMAIN objects[o].attributes
                THEN ctrl' = ValC(objects[o].attributes[attr])
              ELSE IF attr \in DOMAIN objects[o].class_def.methods
                THEN ctrl' = ValC(VMethodClosure(objects[o].class_def.methods[attr], ctrl.val))
              ELSE ctrl'.mode = "raise" /\ ctrl'.kind = "AttributeError"
           /\ objects' = objects
           /\ frames' = frames
           /\ kont' = Tail(kont)

(* the step that dispatches a bound-method call which binds its arguments *)
MethodBindStep ==
    (Running /\ ctrl.mode = "apply" /\ ctrl.val.tag = "VMethodClosure" /\ ctrl'.mode # "raise") =>
        LET names == ctrl.val.function.funcdef.arg_names
            call_env == Len(frames) + 1
        IN /\ Len(frames') = call_env
           /\ frames'[call_env].parent = ctrl.val.function.closure_env
           /\ Len(names) > 0 => frames'[call_env].vars[names[1]] = ctrl.val.instance
           /\ \A i \in 2..Len(names) : frames'[call_env].vars[names[i]] = ctrl.args[i - 1]
           /\ objects' = objects

(* ObjectProgram: two accesses c.m give two bound methods that work alike; *)
(* c.m = 3 then hides the method for c, not for d                          *)
ObjectProgramResult ==
    (pc # "run" /\ program = ObjectProgram) =>
        /\ pc = "raised" /\ ctrl.kind = "AttributeError"
        /\ frames[1].vars["b1"] = VMethodClosure(frames[1].vars["C"].methods["m"], VObject(1))
        /\ frames[1].vars["b2"] = frames[1].vars["b1"]
        /\ frames[1].vars["r1"] = VTuple(<<VObject(1), VNumber(5)>>)
        /\ frames[1].vars["r2"] = VTuple(<<VObject(1), VNumber(6)>>)
        /\ objects[1].attributes = [val |-> VNumber(7), m |-> VNumber(3)]
        /\ objects[2].attributes = [val |-> VNumber(8)]

(* C7: obj.attr on an Object gives the instance attribute of that name if   *)
(* there is one, even when the class has such a method; otherwise a         *)
(* MethodClosure of the class's method and this Object, built on each       *)
(* access with nothing stored; otherwise an attribute error.  Calling the   *)
(* MethodClosure binds the first parameter to the Object and the others     *)
(* positionally to the arguments.                                           *)
C7_AttributeResolution == [][AttributeStep /\ MethodBindStep]_vars /\ []ObjectProgramResult

C7_Witness ==
    /\ program = ObjectProgram
    /\ pc = "raised"
    /\ frames[1].vars["r2"] = VTuple(<<VObject(1), VNumber(6)>>)
    /\ objects[1].attributes["m"] = VNumber(3)

(* the step that indexes a List, Tuple or String with a Number *)
IndexingStep ==
    /\ Returning("SubscriptIndex")
    /\ kont[1].collection.tag \in {"VList", "VTuple", "VString"}
    /\ ctrl.val.tag = "VNumber"

Indexed == IF kont[1].collection.tag = "VString" THEN kont[1].collection.str ELSE kont[1].collection.elems

Element(x) == IF kont[1].collection.tag = "VString" THEN VString(<<x>>) ELSE x

(* C8: subscript of a List, Tuple or String of length n by an integer i     *)
(* gives the element at position i when 0 <= i < n and fails with an        *)
(* index-out-of-range error for every other i, the negative ones included.  *)
C8_IndexOutsideZeroToNFails ==
    [][IndexingStep =>
          IF 0 <= ctrl.val.num /\ ctrl.val.num < Len(Indexed)
            THEN ctrl' = ValC(Element(Indexed[ctrl.val.num + 1]))
            ELSE ctrl'.mode = "raise" /\ ctrl'.kind = "IndexError"]_vars

(* r = collection[i] of SubscriptProgram, for i counted from either end *)
SubscriptProgramResult ==
    pc # "run" =>
      \A kind \in {"list", "tuple", "string"}, n \in 0..MaxLen, i \in (-(MaxLen + 1))..(MaxLen + 1) :
        program = SubscriptProgram(kind, n, i) =>
            LET at == IF i >= 0 THEN i + 1 ELSE n + i + 1
            IN IF 1 <= at /\ at <= n
                 THEN /\ pc = "done"
                      /\ ctrl.val = IF kind = "string" THEN VString(<<Chars[at]>>) ELSE VNumber(10 * at)
                 ELSE pc = "raised" /\ ctrl.kind = "IndexError"

(* C8 as amended: subscript gives the element at position i when            *)
(* 0 <= i < n, the element at position n + i when -n <= i < 0, and fails    *)
(* with an index-out-of-range error when i >= n or i < -n.                  *)
C8_IndexCountsFromEitherEnd ==
    /\ [][IndexingStep =>
            IF 0 <= ctrl.val.num /\ ctrl.val.num < Len(Indexed)
              THEN ctrl' = ValC(Element(Indexed[ctrl.val.num + 1]))
            ELSE IF -Len(Indexed) <= ctrl.val.num /\ ctrl.val.num < 0
              THEN ctrl' = ValC(Element(Indexed[Len(Indexed) + ctrl.val.num + 1]))
            ELSE ctrl'.mode = "raise" /\ ctrl'.kind = "IndexError"]_vars
    /\ []SubscriptProgramResult

C8_Witness ==
    /\ program = SubscriptProgram("string", MaxLen, -1)
    /\ pc = "done"
    /\ ctrl.val = VString(<<Chars[MaxLen]>>)

(* the steps of and / or once an operand of a valid type is evaluated *)
ShortCircuitStep ==
    /\ (Returning("AndLeft") /\ ValidAndOrType(ctrl.val)) =>
          /\ frames' = frames /\ objects' = objects
          /\ IF ~Truthy(ctrl.val)
               THEN ctrl' = ctrl /\ kont' = Tail(kont)
               ELSE /\ ctrl' = EvalC(kont[1].node.right, kont[1].env)
                    /\ kont'[1].k = "AndRight" /\ Tail(kont') = Tail(kont)
    /\ (Returning("OrLeft") /\ ValidAndOrType(ctrl.val)) =>
          /\ frames' = frames /\ objects' = objects
          /\ IF Truthy(ctrl.val)
               THEN ctrl' = ctrl /\ kont' = Tail(kont)
               ELSE /\ ctrl' = EvalC(kont[1].node.right, kont[1].env)
                    /\ kont'[1].k = "OrRight" /\ Tail(kont') = Tail(kont)
    /\ ((Returning("AndRight") \/ Returning("OrRight")) /\ ValidAndOrType(ctrl.val)) =>
          /\ ctrl' = ctrl /\ kont' = Tail(kont)
          /\ frames' = frames /\ objects' = objects

(* the truth of each operand of BoolOperands but the last, which is a closure *)
LeftTruth == <<FALSE, TRUE, FALSE, TRUE, FALSE, FALSE, TRUE, FALSE, TRUE>>

(* res = l and/or r of AndOrProgram: w is written, and the undefined name  *)
(* or the closure on the right fails, only when the left decides nothing   *)
AndOrProgramResult ==
    pc # "run" =>
      \A op \in {"and", "or"}, l \in 1..Len(LeftTruth), r \in 1..Len(RightOperands) :
        program = AndOrProgram(op, l, r) =>
            IF LeftTruth[l] = (op = "or")
              THEN /\ pc = "raised" /\ ctrl.kind = "NameError"
                   /\ DOMAIN frames[1].vars = {"f", "res"}
                   /\ Truthy(frames[1].vars["res"]) = LeftTruth[l]
                   /\ frames[1].vars["res"].tag # "VString" \/ frames[1].vars["res"].str # <<"r">>
              ELSE CASE r = 1 -> /\ pc = "done" /\ ctrl.val = VNumber(1)
                                 /\ frames[1].vars["res"] = VNumber(1)
                                 /\ frames[1].vars["w"] = VNumber(1)
                     [] r = 2 -> pc = "raised" /\ ctrl.kind = "NameError" /\ DOMAIN frames[1].vars = {"f"}
                     [] r = 3 -> pc = "raised" /\ ctrl.kind = "TypeError" /\ DOMAIN frames[1].vars = {"f"}
                     [] r = 4 -> /\ pc = "raised" /\ ctrl.kind = "NameError"
                                 /\ frames[1].vars["res"] = VString(<<"r">>)

(* C9: when the left operand of and is falsy, or that of or is truthy, the  *)
(* result is the left value and the right operand is never evaluated, so    *)
(* nothing it would write or raise happens; otherwise the right operand is  *)
(* evaluated once and its value is the result.                              *)
C9_ShortCircuit == [][ShortCircuitStep]_vars /\ []AndOrProgramResult

C9_Witness ==
    /\ program = AndOrProgram("and", 1, 2)
    /\ pc = "raised"
    /\ "res" \in DOMAIN frames[1].vars
    /\ frames[1].vars["res"] = VBool(FALSE)

(* a function or method call about to be dispatched whose callee is variadic *)
VariadicCall ==
    /\ Running /\ ctrl.mode = "apply"
    /\ ctrl.val.tag \in {"VFunctionClosure", "VMethodClosure"}
    /\ DeclaredVararg(ctrl.val) # NoVararg
    /\ Len(ctrl.args) >= DeclaredParams(ctrl.val)

(* the arguments left once the named parameters (receiver apart) have theirs *)
Surplus(fv, args) == [i \in 1..(Len(args) - DeclaredParams(fv)) |-> args[DeclaredParams(fv) + i]]

(* C10: a call of a variadic function or method binds the variadic name in  *)
(* the call frame to the List of exactly the arguments not bound to a named *)
(* (non-receiver) parameter, in order, the empty List when there is none,   *)
(* for every number of named parameters, none at all included; no           *)
(* too-many-arguments error is raised.                                      *)
C10_VarargsCollectSurplus ==
    [][VariadicCall =>
          /\ ctrl'.mode # "raise"
          /\ Len(frames') = Len(frames) + 1
          /\ frames'[Len(frames')].vars[DeclaredVararg(ctrl.val)] = VList(Surplus(ctrl.val, ctrl.args))]_vars

====
